---- MODULE Spec2Model ----
(***************************************************************************)
(* Model of src/main.rs: a forwarding relay with a plain acceptor, a TLS   *)
(* terminating acceptor, one spawned task per accepted connection and a    *)
(* pair of copy loops (pipe_stream) per relayed session.                   *)
(***************************************************************************)
EXTENDS Naturals, Sequences, FiniteSets

\* ------------------------------------------------------------------ bounds
\* Inbound connections the environment offers.
NConn == 2
\* Bytes the client sends before closing its write side.
MaxLen == 3
\* Bytes the upstream sends before closing its write side.
RespLen == 1

Conns == 1 .. NConn
Ports == {"http", "https"}
\* c2s: pipe_stream(client_read, server_write); s2c: pipe_stream(server_read, client_write)
Dirs == {"c2s", "s2c"}

Other(d) == IF d = "c2s" THEN "s2c" ELSE "c2s"
OtherPort(p) == IF p = "http" THEN "https" ELSE "http"

\* BytesMut::with_capacity(4 << 10)
Capacity == 4096

\* The number of bytes a client (c2s) and the upstream (s2c) send.
InLen(d) == IF d = "c2s" THEN MaxLen ELSE RespLen

VARIABLES
  main,        \* outcome of main's body: "running", "ok", "err", "panicked"
  mainErr,     \* the error main returned, "none" while there is none
  acceptor,    \* per port: position of listen_for_http(s)_request
  acceptorErr, \* per port: the error the acceptor returned
  port,        \* per connection: the port the client connects to
  phase,       \* per connection: position of its spawned task
  dials,       \* per connection: number of TcpStream::connect calls made
  pc,          \* per connection and direction: position of pipe_stream
  buffer,      \* per connection and direction: contents of the BytesMut
  rpos,        \* per connection and direction: bytes read from the reader so far
  recv,        \* per connection and direction: bytes the writer has accepted
  nshut,       \* per connection and direction: completed shutdowns of the writer
  inlen,       \* per connection and direction: bytes the reader's peer sends in all
  bmut         \* per connection and direction: the BytesMut's offset and capacity

vars == <<main, mainErr, acceptor, acceptorErr, port, phase, dials,
          pc, buffer, rpos, recv, nshut, inlen, bmut>>

pipeVars == <<pc, buffer, rpos, recv, nshut>>

\* The byte sequence the peer behind the reader of direction d of connection c
\* sends before it closes its write side.
Input(c, d) == [i \in 1 .. inlen[c][d] |-> <<c, d, i>>]

\* Positions of a pipe_stream future that is still being polled.
Active == {"read", "write", "shutdown"}
\* Positions of a spawned task that is still being polled.
InFlight == {"handshaking", "dialing", "relay"}

\* ------------------------------------------------------------------ joins
\* Result of a future as try_join! sees it.
Res(s) == IF s = "ok" THEN "ok" ELSE IF s \in {"err", "panicked"} THEN s ELSE "pending"

\* What a join of two futures yields if it waits for both of them.
JoinAll(ra, rb) ==
  IF ra = "pending" \/ rb = "pending" THEN "pending"
  ELSE IF ra = "err" \/ rb = "err" THEN "err"
  ELSE "ok"

\* What a join yields if the first future to complete ends it.
JoinAny(ra, rb) ==
  IF ra = "err" \/ rb = "err" THEN "err"
  ELSE IF ra = "ok" \/ rb = "ok" THEN "ok"
  ELSE "pending"

\* try_join!(a, b): the first Err ends the join at once, Ok needs both.
TryJoin(ra, rb) ==
  IF ra = "err" \/ rb = "err" THEN "err"
  ELSE IF ra = "ok" /\ rb = "ok" THEN "ok"
  ELSE "pending"

\* Dropping a pipe_stream future that has not completed.
Drop(s) == IF s \in Active THEN "cancelled" ELSE s

\* main's try_join! over the two acceptors, given their new positions acc,
\* the error e the polled acceptor returned and the connections' positions ph.
\* When the join completes, the other acceptor's future is dropped in the same
\* poll; the spawned tasks are not touched by it (see Teardown).
Supervise(acc, e, ph) ==
  LET r == IF "panicked" \in {acc[p] : p \in Ports} THEN "panicked"
           ELSE TryJoin(Res(acc["http"]), Res(acc["https"]))
  IN /\ phase' = ph
     /\ pc' = pc
     /\ IF r = "pending"
        THEN /\ acceptor' = acc
             /\ UNCHANGED <<main, mainErr>>
        ELSE /\ main' = r
             /\ mainErr' = e
             /\ acceptor' = [p \in Ports |->
                               IF acc[p] \in {"err", "panicked", "ok"} THEN acc[p] ELSE "cancelled"]

\* A session that is not ended when its join completes.
SessionJoinNoEnd(c, npc) ==
  /\ pc' = [pc EXCEPT ![c] = npc]
  /\ phase' = phase

\* process_stream's try_join! over the two copy operations of connection c,
\* given their new positions npc.
SessionJoin(c, npc) ==
  LET r == TryJoin(Res(npc["c2s"]), Res(npc["s2c"]))
  IN /\ pc' = [pc EXCEPT ![c] = IF r = "err" THEN [d \in Dirs |-> Drop(npc[d])] ELSE npc]
     /\ phase' = [phase EXCEPT ![c] =
                    IF r = "err" THEN "ended_err"
                    ELSE IF r = "ok" THEN "ended_ok" ELSE "relay"]

\* ------------------------------------------------------------------ init
\* Everything but the lengths of the peers' byte streams.
Start ==
  /\ main = "running"
  /\ mainErr = "none"
  /\ acceptor = [p \in Ports |-> IF p = "http" THEN "binding" ELSE "loading"]
  /\ acceptorErr = [p \in Ports |-> "none"]
  /\ port \in [Conns -> Ports]
  /\ phase = [c \in Conns |-> "pending"]
  /\ dials = [c \in Conns |-> 0]
  /\ pc = [c \in Conns |-> [d \in Dirs |-> "idle"]]
  /\ buffer = [c \in Conns |-> [d \in Dirs |-> <<>>]]
  /\ rpos = [c \in Conns |-> [d \in Dirs |-> 0]]
  /\ recv = [c \in Conns |-> [d \in Dirs |-> <<>>]]
  /\ nshut = [c \in Conns |-> [d \in Dirs |-> 0]]
  /\ bmut = [c \in Conns |-> [d \in Dirs |-> [off |-> 0, cap |-> Capacity]]]

Init ==
  /\ Start
  /\ inlen = [c \in Conns |-> [d \in Dirs |-> InLen(d)]]

\* One client on the plain port, every other one on the secure port.
MixedInit ==
  /\ Init
  /\ port = [c \in Conns |-> IF c = 1 THEN "http" ELSE "https"]

\* The first client, on the plain port, sends two bytes more than the buffer's
\* capacity, every other peer as many bytes as the upstream does.
BufInit ==
  /\ Start
  /\ port = [c \in Conns |-> IF c = 1 THEN "http" ELSE "https"]
  /\ inlen = [c \in Conns |-> [d \in Dirs |->
                IF c = 1 /\ d = "c2s" THEN Capacity + 2 ELSE RespLen]]

\* ------------------------------------------------------------------ acceptors
\* An acceptor returns Err(e) through `?`.
AcceptorFails(p, e, ph) ==
  /\ acceptorErr' = [acceptorErr EXCEPT ![p] = e]
  /\ Supervise([acceptor EXCEPT ![p] = "err"], e, ph)

\* load_certs, load_keys, keys.remove(0), set_single_cert, TlsAcceptor::from.
LoadOutcomes == {"ok", "cert_error", "key_error", "no_key", "config_error"}

LoadTls(o) ==
  /\ main = "running"
  /\ acceptor["https"] = "loading"
  /\ UNCHANGED <<port, inlen, bmut, dials, buffer, rpos, recv, nshut>>
  /\ IF o = "ok"
     THEN /\ acceptor' = [acceptor EXCEPT !["https"] = "binding"]
          /\ UNCHANGED <<main, mainErr, acceptorErr, phase, pc>>
     ELSE IF o = "no_key"
     THEN /\ acceptorErr' = [acceptorErr EXCEPT !["https"] = o]
          /\ Supervise([acceptor EXCEPT !["https"] = "panicked"], o, phase)
     ELSE AcceptorFails("https", o, phase)

\* TcpListener::bind(..).await?
\* main polls listen_for_http_request first: its bind may return in that poll,
\* before listen_for_https_request has loaded the certificate, or later.
Bind(p, ok) ==
  /\ main = "running"
  /\ acceptor[p] = "binding"
  /\ UNCHANGED <<port, inlen, bmut, dials, buffer, rpos, recv, nshut>>
  /\ IF ok
     THEN /\ acceptor' = [acceptor EXCEPT ![p] = "accepting"]
          /\ UNCHANGED <<main, mainErr, acceptorErr, phase, pc>>
     ELSE AcceptorFails(p, "bind_error", phase)

\* An accept loop that awaits the handling of a connection before the next accept.
AcceptSerial(p, c) ==
  /\ main = "running"
  /\ acceptor[p] = "accepting"
  /\ phase[c] = "pending"
  /\ port[c] = p
  /\ \A c2 \in Conns : port[c2] = p => phase[c2] \notin InFlight
  /\ phase' = [phase EXCEPT ![c] = IF p = "https" THEN "handshaking" ELSE "dialing"]
  /\ UNCHANGED <<main, mainErr, acceptor, acceptorErr, port, inlen, bmut, dials, pipeVars>>

\* An accept loop that spawns process_stream on the raw stream on both ports.
AcceptNoTls(p, c) ==
  /\ main = "running"
  /\ acceptor[p] = "accepting"
  /\ phase[c] = "pending"
  /\ port[c] = p
  /\ phase' = [phase EXCEPT ![c] = "dialing"]
  /\ UNCHANGED <<main, mainErr, acceptor, acceptorErr, port, inlen, bmut, dials, pipeVars>>

\* listener.accept().await? returning a connection, then tokio::spawn.
Accept(p, c) ==
  /\ main = "running"
  /\ acceptor[p] = "accepting"
  /\ phase[c] = "pending"
  /\ port[c] = p
  /\ phase' = [phase EXCEPT ![c] = IF p = "https" THEN "handshaking" ELSE "dialing"]
  /\ UNCHANGED <<main, mainErr, acceptor, acceptorErr, port, inlen, bmut, dials, pipeVars>>

\* listener.accept().await? returning an error for one inbound connection
\* (the connection was aborted before it was accepted): `?` returns it.
AcceptConnError(p, c) ==
  /\ main = "running"
  /\ acceptor[p] = "accepting"
  /\ phase[c] = "pending"
  /\ port[c] = p
  /\ UNCHANGED <<port, inlen, bmut, dials, buffer, rpos, recv, nshut>>
  /\ AcceptorFails(p, "accept_connection_error", [phase EXCEPT ![c] = "accept_failed"])

\* listener.accept().await? returning an error because the listener is unusable.
AcceptListenerError(p) ==
  /\ main = "running"
  /\ acceptor[p] = "accepting"
  /\ UNCHANGED <<port, inlen, bmut, dials, buffer, rpos, recv, nshut>>
  /\ AcceptorFails(p, "listener_error", phase)

\* ------------------------------------------------------------------ tasks
\* A handshake awaited by the acceptor loop itself, its error returned by `?`.
HandshakeInline(c, ok) ==
  /\ main = "running"
  /\ phase[c] = "handshaking"
  /\ UNCHANGED <<port, inlen, bmut, dials, buffer, rpos, recv, nshut>>
  /\ IF ok
     THEN /\ phase' = [phase EXCEPT ![c] = "dialing"]
          /\ UNCHANGED <<main, mainErr, acceptor, acceptorErr, pc>>
     ELSE AcceptorFails("https", "tls_error", [phase EXCEPT ![c] = "tls_failed"])

\* process_https_stream: tls_acceptor.accept(stream).await?
Handshake(c, ok) ==
  /\ phase[c] = "handshaking"
  /\ phase' = [phase EXCEPT ![c] = IF ok THEN "dialing" ELSE "tls_failed"]
  /\ UNCHANGED <<main, mainErr, acceptor, acceptorErr, port, inlen, bmut, dials, pipeVars>>

\* A dial that is tried again after it failed.
DialRetry(c, ok) ==
  /\ phase[c] = "dialing"
  /\ dials[c] < 3
  /\ dials' = [dials EXCEPT ![c] = @ + 1]
  /\ IF ok
     THEN /\ phase' = [phase EXCEPT ![c] = "relay"]
          /\ pc' = [pc EXCEPT ![c] = [d \in Dirs |-> "read"]]
     ELSE UNCHANGED <<phase, pc>>
  /\ UNCHANGED <<main, mainErr, acceptor, acceptorErr, port, inlen, bmut, buffer, rpos, recv, nshut>>

\* process_stream: TcpStream::connect(REMOTE_ADDRESS).await?, then the
\* try_join! of the two pipe_stream futures starts.
Dial(c, ok) ==
  /\ phase[c] = "dialing"
  /\ dials' = [dials EXCEPT ![c] = @ + 1]
  /\ IF ok
     THEN /\ phase' = [phase EXCEPT ![c] = "relay"]
          /\ pc' = [pc EXCEPT ![c] = [d \in Dirs |-> "read"]]
     ELSE /\ phase' = [phase EXCEPT ![c] = "dial_failed"]
          /\ pc' = pc
  /\ UNCHANGED <<main, mainErr, acceptor, acceptorErr, port, inlen, bmut, buffer, rpos, recv, nshut>>

\* ------------------------------------------------------------------ pipe_stream
\* reader.read_buf(&mut buffer): the bytes read are appended to the buffer.
ReadBuf(buf, chunk) == buf \o chunk

Max(a, b) == IF a >= b THEN a ELSE b
Min(a, b) == IF a <= b THEN a ELSE b

\* BytesMut::chunk_mut on a buffer of len bytes: a full buffer reserves 64
\* bytes more, by moving its bytes back to the front of the allocation when
\* the consumed front has room for the 64 bytes and for the staged bytes
\* (they are copied without overlap), else by growing the Vec (amortized: to
\* twice its capacity at least).
ChunkMut(b, len) ==
  IF b.cap # len THEN b
  ELSE IF b.off >= 64 /\ b.off >= len
       THEN [off |-> 0, cap |-> b.cap + b.off]
       ELSE [off |-> b.off,
             cap |-> Max(2 * (b.off + b.cap), b.off + len + 64) - b.off]

\* The most one read_buf can return: the spare capacity behind the staged bytes.
Spare(c, d) == ChunkMut(bmut[c][d], Len(buffer[c][d])).cap - Len(buffer[c][d])

\* A buffer whose cursor does not move on a write.
AdvanceNone(buf, n) == buf

\* writer.write_buf(&mut buffer): one write of the front of the buffer; the
\* buffer's cursor advances by the n bytes the writer accepted.
Advance(buf, n) == SubSeq(buf, n + 1, Len(buf))

Accepted(buf, n) == SubSeq(buf, 1, n)

\* A writer that every session shares with the first one.
WriterShared(c, d) == <<1, d>>

\* The stream pipe_stream writes to: the session's own server_write for
\* c2s, its own client_write for s2c.
Writer(c, d) == <<c, d>>

\* A copy operation that cannot run while the other one is suspended in a write.
PolledExclusive(c, d, at) ==
  /\ phase[c] = "relay"
  /\ pc[c][d] = at
  /\ pc[c][Other(d)] # "write"

\* A copy operation is polled only inside its session's try_join!, as long
\* as the session's task has neither completed nor been cancelled.
Polled(c, d, at) ==
  /\ phase[c] = "relay"
  /\ pc[c][d] = at

\* read_buf returns n > 0: the reader delivers the next n bytes of its peer.
ReadData(c, d, n) ==
  /\ Polled(c, d, "read")
  /\ n \in 1 .. Min(inlen[c][d] - rpos[c][d], Spare(c, d))
  /\ bmut' = [bmut EXCEPT ![c][d] = ChunkMut(@, Len(buffer[c][d]))]
  /\ buffer' = [buffer EXCEPT ![c][d] =
                  ReadBuf(@, SubSeq(Input(c, d), rpos[c][d] + 1, rpos[c][d] + n))]
  /\ rpos' = [rpos EXCEPT ![c][d] = @ + n]
  /\ pc' = [pc EXCEPT ![c][d] = "write"]
  /\ UNCHANGED <<main, mainErr, acceptor, acceptorErr, port, inlen, phase, dials, recv, nshut>>

\* A read of zero bytes that skips the shutdown of the writer.
ReadEofNoShutdown(c, d) ==
  /\ Polled(c, d, "read")
  /\ rpos[c][d] = inlen[c][d]
  /\ SessionJoin(c, [pc[c] EXCEPT ![d] = "ok"])
  /\ UNCHANGED <<main, mainErr, acceptor, acceptorErr, port, inlen, bmut, dials, buffer, rpos, recv, nshut>>

\* read_buf returns 0: the peer closed its write side after its last byte;
\* the loop breaks to writer.shutdown().
ReadEof(c, d) ==
  /\ Polled(c, d, "read")
  /\ rpos[c][d] = inlen[c][d]
  /\ bmut' = [bmut EXCEPT ![c][d] = ChunkMut(@, Len(buffer[c][d]))]
  /\ pc' = [pc EXCEPT ![c][d] = "shutdown"]
  /\ UNCHANGED <<main, mainErr, acceptor, acceptorErr, port, inlen, phase, dials, buffer, rpos, recv, nshut>>

\* write_buf returns n: the writer accepted the first n staged bytes, and
\* the loop goes back to read_buf whatever is left in the buffer.
WriteSome(c, d, n) ==
  /\ Polled(c, d, "write")
  /\ n \in 1 .. Len(buffer[c][d])
  /\ recv' = [recv EXCEPT ![Writer(c, d)[1]][Writer(c, d)[2]] =
                @ \o Accepted(buffer[c][d], n)]
  /\ buffer' = [buffer EXCEPT ![c][d] = Advance(@, n)]
  /\ bmut' = [bmut EXCEPT ![c][d] = [off |-> @.off + n, cap |-> @.cap - n]]
  /\ pc' = [pc EXCEPT ![c][d] = "read"]
  /\ UNCHANGED <<main, mainErr, acceptor, acceptorErr, port, inlen, phase, dials, rpos, nshut>>

\* writer.shutdown() returns Ok: pipe_stream returns Ok.
ShutdownOk(c, d) ==
  /\ Polled(c, d, "shutdown")
  /\ nshut' = [nshut EXCEPT ![c][d] = @ + 1]
  /\ SessionJoin(c, [pc[c] EXCEPT ![d] = "ok"])
  /\ UNCHANGED <<main, mainErr, acceptor, acceptorErr, port, inlen, bmut, dials, buffer, rpos, recv>>

\* An I/O error returned by the spawned task's caller: the acceptor fails with it.
IoErrorEscalated(c, d) ==
  /\ main = "running"
  /\ phase[c] = "relay"
  /\ pc[c][d] \in Active
  /\ AcceptorFails(port[c], "relay_error", [phase EXCEPT ![c] = "ended_err"])
  /\ UNCHANGED <<port, inlen, bmut, dials, buffer, rpos, recv, nshut>>

\* An I/O error after which the writer is shut down all the same.
IoErrorThenShutdown(c, d) ==
  /\ phase[c] = "relay"
  /\ pc[c][d] \in Active
  /\ nshut' = [nshut EXCEPT ![c][d] = @ + 1]
  /\ SessionJoin(c, [pc[c] EXCEPT ![d] = "err"])
  /\ UNCHANGED <<main, mainErr, acceptor, acceptorErr, port, inlen, bmut, dials, buffer, rpos, recv>>

\* read_buf, write_buf or shutdown returns an I/O error: pipe_stream returns
\* it, and the session's try_join! returns it in the same poll.
IoError(c, d) ==
  /\ phase[c] = "relay"
  /\ pc[c][d] \in Active
  /\ SessionJoin(c, [pc[c] EXCEPT ![d] = "err"])
  /\ UNCHANGED <<main, mainErr, acceptor, acceptorErr, port, inlen, bmut, dials, buffer, rpos, recv, nshut>>

\* ------------------------------------------------------------------ runtime
\* A runtime that cancels only the tasks spawned by an acceptor that failed.
TeardownOwnPort(c) ==
  /\ main # "running"
  /\ acceptor[port[c]] \in {"err", "panicked"}
  /\ phase[c] \in InFlight
  /\ phase' = [phase EXCEPT ![c] = "aborted"]
  /\ pc' = [pc EXCEPT ![c] = [d \in Dirs |-> Drop(pc[c][d])]]
  /\ UNCHANGED <<main, mainErr, acceptor, acceptorErr, port, inlen, bmut, dials,
                 buffer, rpos, recv, nshut>>

\* #[tokio::main]: after main's body has returned the runtime is dropped,
\* which cancels the spawned tasks that have not completed, one at a time; a
\* task that is being polled meanwhile goes on until it is cancelled.
Teardown(c) ==
  /\ main # "running"
  /\ phase[c] \in InFlight
  /\ phase' = [phase EXCEPT ![c] = "aborted"]
  /\ pc' = [pc EXCEPT ![c] = [d \in Dirs |-> Drop(pc[c][d])]]
  /\ UNCHANGED <<main, mainErr, acceptor, acceptorErr, port, inlen, bmut, dials,
                 buffer, rpos, recv, nshut>>

\* ------------------------------------------------------------------ spec
Next ==
  \/ \E o \in LoadOutcomes : LoadTls(o)
  \/ \E p \in Ports, ok \in BOOLEAN : Bind(p, ok)
  \/ \E p \in Ports, c \in Conns : Accept(p, c)
  \/ \E p \in Ports, c \in Conns : AcceptConnError(p, c)
  \/ \E p \in Ports : AcceptListenerError(p)
  \/ \E c \in Conns, ok \in BOOLEAN : Handshake(c, ok)
  \/ \E c \in Conns, ok \in BOOLEAN : Dial(c, ok)
  \/ \E c \in Conns, d \in Dirs, n \in 1 .. MaxLen + RespLen : ReadData(c, d, n)
  \/ \E c \in Conns, d \in Dirs : ReadEof(c, d)
  \/ \E c \in Conns, d \in Dirs, n \in 1 .. MaxLen + RespLen : WriteSome(c, d, n)
  \/ \E c \in Conns, d \in Dirs : ShutdownOk(c, d)
  \/ \E c \in Conns, d \in Dirs : IoError(c, d)
  \/ \E c \in Conns : Teardown(c)

Spec == Init /\ [][Next]_vars

\* The relay when every read returns all that is available and fits, and a
\* write accepts one byte or all that is staged.
BufNext ==
  \/ \E o \in LoadOutcomes : LoadTls(o)
  \/ \E p \in Ports, ok \in BOOLEAN : Bind(p, ok)
  \/ \E p \in Ports, c \in Conns : Accept(p, c)
  \/ \E p \in Ports, c \in Conns : AcceptConnError(p, c)
  \/ \E p \in Ports : AcceptListenerError(p)
  \/ \E c \in Conns, ok \in BOOLEAN : Handshake(c, ok)
  \/ \E c \in Conns, ok \in BOOLEAN : Dial(c, ok)
  \/ \E c \in Conns, d \in Dirs :
       ReadData(c, d, Min(inlen[c][d] - rpos[c][d], Spare(c, d)))
  \/ \E c \in Conns, d \in Dirs : ReadEof(c, d)
  \/ \E c \in Conns, d \in Dirs :
       \E n \in {1, Len(buffer[c][d])} : WriteSome(c, d, n)
  \/ \E c \in Conns, d \in Dirs : ShutdownOk(c, d)
  \/ \E c \in Conns, d \in Dirs : IoError(c, d)
  \/ \E c \in Conns : Teardown(c)

BufSpec == BufInit /\ [][BufNext]_vars

\* writer.shutdown().await returns, with Ok or with an error.
ShutdownReturns(c, d) ==
  /\ Polled(c, d, "shutdown")
  /\ (ShutdownOk(c, d) \/ IoError(c, d))

\* The runtime polls a copy operation whose shutdown call can return.
FairSpec == MixedInit /\ [][Next]_vars /\ \A c \in Conns, d \in Dirs : WF_vars(ShutdownReturns(c, d))

\* One iteration step of a copy operation: its pending call returns.
PipeStep(c, d) ==
  \/ \E n \in 1 .. MaxLen + RespLen : ReadData(c, d, n)
  \/ ReadEof(c, d)
  \/ \E n \in 1 .. MaxLen + RespLen : WriteSome(c, d, n)
  \/ ShutdownOk(c, d)
  \/ IoError(c, d)

\* Both peers eventually send, close or fail, every pending write is eventually
\* accepted or fails, and the runtime polls some copy operation that is ready.
LiveSpec == MixedInit /\ [][Next]_vars /\ WF_vars(\E c \in Conns, d \in Dirs : PipeStep(c, d))

\* The drop of the runtime reaches every task that has not completed.
StopSpec == MixedInit /\ [][Next]_vars /\ \A c \in Conns : WF_vars(Teardown(c))

\* ------------------------------------------------------------------ claims
ReadSoFar(c, d) == SubSeq(Input(c, d), 1, rpos[c][d])

IsPrefix(s, t) == Len(s) <= Len(t) /\ s = SubSeq(t, 1, Len(s))

\* C1: a copy operation that terminates successfully has handed its writer
\* exactly the byte sequence its reader delivered before end-of-stream.
C1_ByteFidelity ==
  \A c \in Conns, d \in Dirs : pc[c][d] = "ok" => recv[c][d] = Input(c, d)

\* C2: in every state the bytes written to the writer of a direction are a
\* prefix of the bytes read from its reader.
C2_WrittenIsPrefixOfRead ==
  \A c \in Conns, d \in Dirs : IsPrefix(recv[c][d], ReadSoFar(c, d))

C2_Witness ==
  \E c \in Conns, d \in Dirs :
    /\ pc[c][d] = "write"
    /\ recv[c][d] # <<>>
    /\ Len(buffer[c][d]) >= 2

\* C3: after the client's end-of-stream the client-to-upstream copy shuts the
\* upstream writer down exactly once, writes nothing after it, and, unless an
\* I/O error or a teardown ends it, eventually terminates successfully.
C3_HalfClose ==
  /\ [](\A c \in Conns : /\ nshut[c]["c2s"] <= 1
                         /\ pc[c]["c2s"] = "ok" => nshut[c]["c2s"] = 1)
  /\ [][\A c \in Conns : nshut[c]["c2s"] = 1 =>
                           /\ recv'[c]["c2s"] = recv[c]["c2s"]
                           /\ nshut'[c]["c2s"] = 1
                           /\ pc'[c]["c2s"] = "ok"]_vars
  /\ \A c \in Conns :
       (pc[c]["c2s"] = "shutdown") ~> (pc[c]["c2s"] \in {"ok", "err", "cancelled"})

C3_Witness ==
  \E c \in Conns :
    /\ pc[c]["c2s"] = "ok"
    /\ nshut[c]["c2s"] = 1
    /\ recv[c]["c2s"] = Input(c, "c2s")
    /\ phase[c] = "relay"

\* C4: when the client-to-upstream copy of a session has failed, every byte
\* the upstream-to-client copy had read has been written to the client by
\* the time that direction has ended.
C4_StagedBytesDelivered ==
  \A c \in Conns :
    (pc[c]["c2s"] = "err" /\ pc[c]["s2c"] \notin Active)
      => recv[c]["s2c"] = ReadSoFar(c, "s2c")

\* C5: every byte written to or staged for a stream of a session was read
\* from the opposite stream of that same session.
C5_SessionIsolation ==
  \A c \in Conns, d \in Dirs :
    /\ \A i \in 1 .. Len(recv[c][d]) : recv[c][d][i][1] = c /\ recv[c][d][i][2] = d
    /\ \A i \in 1 .. Len(buffer[c][d]) : buffer[c][d][i][1] = c /\ buffer[c][d][i][2] = d

C5_Witness ==
  \E c1, c2 \in Conns :
    /\ c1 # c2
    /\ phase[c1] = "relay" /\ phase[c2] = "relay"
    /\ recv[c1]["c2s"] # <<>> /\ recv[c2]["c2s"] # <<>>
    /\ recv[c1]["s2c"] # <<>>

\* C6: a step in which a TLS handshake fails changes nothing but that
\* connection: main, both acceptors and every other connection are untouched.
C6_HandshakeFailureIsolated ==
  [][\A c \in Conns :
       (phase[c] = "handshaking" /\ phase'[c] = "tls_failed") =>
         /\ main' = main
         /\ acceptor' = acceptor
         /\ \A c2 \in Conns \ {c} : phase'[c2] = phase[c2] /\ pc'[c2] = pc[c2]
         /\ pc'[c] = pc[c] /\ dials'[c] = 0]_vars

C6_Witness ==
  \E c1, c2 \in Conns :
    /\ phase[c1] = "tls_failed"
    /\ port[c2] = "https"
    /\ phase[c2] = "relay"
    /\ recv[c2]["c2s"] # <<>>
    /\ acceptor["https"] = "accepting"

\* C7: a connection is dialled at most once; after a failed dial it stays
\* closed with no copy operation ever started, and the failing step leaves
\* main and both acceptors as they were.
C7_DialFailureContained ==
  /\ [](\A c \in Conns :
          /\ dials[c] <= 1
          /\ phase[c] = "dial_failed" =>
                \A d \in Dirs : pc[c][d] = "idle" /\ rpos[c][d] = 0 /\ recv[c][d] = <<>>)
  /\ [][\A c \in Conns :
          /\ phase[c] = "dial_failed" => phase'[c] = "dial_failed"
          /\ (phase[c] = "dialing" /\ phase'[c] = "dial_failed") =>
                (main' = main /\ acceptor' = acceptor)]_vars

C7_Witness ==
  \E c1, c2 \in Conns :
    /\ phase[c1] = "dial_failed"
    /\ port[c2] = port[c1]
    /\ phase[c2] \in {"handshaking", "dialing"}
    /\ acceptor[port[c1]] = "accepting"

\* C8: an acceptor whose listener is usable can accept a pending inbound
\* connection whatever the connections accepted before it are doing.
C8_AcceptNotBlocked ==
  \A p \in Ports, c \in Conns :
    (main = "running" /\ acceptor[p] = "accepting" /\ phase[c] = "pending" /\ port[c] = p)
      => ENABLED Accept(p, c)

C8_Witness ==
  \E c1, c2 \in Conns :
    /\ port[c1] = port[c2]
    /\ phase[c1] = "relay" /\ pc[c1]["c2s"] = "write"
    /\ phase[c2] = "pending"
    /\ acceptor[port[c2]] = "accepting"

\* C9: once an acceptor has terminated with an error, main has terminated
\* with that same error: it has not reported success and the other acceptor
\* is no longer running.
C9_Supervision ==
  /\ main # "ok"
  /\ \A p \in Ports :
       acceptor[p] \in {"err", "panicked"} =>
         /\ main = acceptor[p]
         /\ mainErr = acceptorErr[p]
         /\ acceptor[OtherPort(p)] \notin {"loading", "binding", "accepting"}

C9_Witness ==
  /\ acceptor["http"] = "err"
  /\ acceptorErr["http"] = "listener_error"
  /\ acceptor["https"] = "cancelled"
  /\ main = "err"
  /\ \E c \in Conns : port[c] = "https" /\ phase[c] = "aborted"

\* C10: an accept call that fails for one inbound connection leaves the
\* acceptor loop accepting.
C10_AcceptErrorTolerated ==
  \A c \in Conns :
    phase[c] = "accept_failed" => (main = "running" /\ acceptor[port[c]] = "accepting")

\* C11: a step in which an I/O error ends a session ends both of its copy
\* operations and changes nothing else: main, both acceptors and every other
\* connection are as they were.
C11_RelayErrorContained ==
  [][\A c \in Conns :
       (phase[c] = "relay" /\ phase'[c] = "ended_err") =>
         /\ \A d \in Dirs : pc'[c][d] \notin Active
         /\ main' = main /\ mainErr' = mainErr
         /\ acceptor' = acceptor /\ acceptorErr' = acceptorErr
         /\ \A c2 \in Conns \ {c} :
              /\ phase'[c2] = phase[c2] /\ pc'[c2] = pc[c2]
              /\ buffer'[c2] = buffer[c2] /\ recv'[c2] = recv[c2]]_vars

C11_Witness ==
  \E c1, c2 \in Conns :
    /\ phase[c1] = "ended_err"
    /\ phase[c2] = "relay" /\ recv[c2]["c2s"] # <<>>
    /\ main = "running"
    /\ \A p \in Ports : acceptor[p] = "accepting"

\* C12: no read is issued, and no end-of-stream is handled, while bytes
\* read earlier are still staged.
C12_ShortWriteCompleted ==
  \A c \in Conns, d \in Dirs :
    pc[c][d] \in {"read", "shutdown"} => buffer[c][d] = <<>>

\* C13: in every state at most 4096 bytes are staged in the buffer of a
\* direction.
C13_BufferBounded ==
  \A c \in Conns, d \in Dirs : Len(buffer[c][d]) <= Capacity

\* C14: a copy operation that ended with an I/O error has not shut its
\* writer down, and reads, writes and shuts down nothing afterwards.
C14_ErrorEndsCopy ==
  /\ [](\A c \in Conns, d \in Dirs : pc[c][d] = "err" => nshut[c][d] = 0)
  /\ [][\A c \in Conns, d \in Dirs :
          pc[c][d] = "err" =>
            /\ pc'[c][d] = "err"
            /\ rpos'[c][d] = rpos[c][d] /\ buffer'[c][d] = buffer[c][d]
            /\ recv'[c][d] = recv[c][d] /\ nshut'[c][d] = 0]_vars

C14_Witness ==
  \E c \in Conns, d \in Dirs :
    /\ pc[c][d] = "err"
    /\ recv[c][d] # <<>>
    /\ buffer[c][d] # <<>>

\* C15: whatever the other direction of its session is suspended in, a copy
\* operation whose own reader or writer is ready can take its next step.
C15_DirectionsIndependent ==
  \A c \in Conns, d \in Dirs :
    (main = "running" /\ phase[c] = "relay") =>
      /\ (pc[c][d] = "read" /\ rpos[c][d] < inlen[c][d]) => ENABLED ReadData(c, d, 1)
      /\ (pc[c][d] = "read" /\ rpos[c][d] = inlen[c][d]) => ENABLED ReadEof(c, d)
      /\ pc[c][d] = "write" => ENABLED WriteSome(c, d, 1)
      /\ pc[c][d] = "shutdown" => ENABLED ShutdownOk(c, d)

C15_Witness ==
  \E c \in Conns :
    /\ phase[c] = "relay"
    /\ pc[c]["c2s"] = "write" /\ recv[c]["c2s"] = <<>>
    /\ pc[c]["s2c"] = "shutdown" /\ recv[c]["s2c"] = Input(c, "s2c")

\* C16: a connection of the secure port that has not completed its handshake
\* has dialled nothing and relayed nothing, and it leaves the handshake only
\* by succeeding (to the dial), by failing (for good) or by a teardown.
C16_SessionAfterHandshake ==
  /\ [](\A c \in Conns :
          (port[c] = "https" /\ phase[c] \in {"pending", "handshaking", "tls_failed"}) =>
            /\ dials[c] = 0
            /\ \A d \in Dirs : pc[c][d] = "idle" /\ rpos[c][d] = 0 /\ recv[c][d] = <<>>)
  /\ [][\A c \in Conns :
          port[c] = "https" =>
            /\ phase[c] = "pending" =>
                  phase'[c] \in {"pending", "handshaking", "accept_failed"}
            /\ phase[c] = "handshaking" =>
                  /\ phase'[c] \in {"handshaking", "dialing", "tls_failed", "aborted"}
                  /\ dials'[c] = 0
            /\ phase[c] = "tls_failed" => phase'[c] = "tls_failed"]_vars

C16_Witness ==
  \E c \in Conns :
    /\ port[c] = "https"
    /\ phase[c] = "relay"
    /\ dials[c] = 1
    /\ recv[c]["c2s"] # <<>> /\ recv[c]["s2c"] # <<>>

\* C17: a session has ended only if both of its copy operations have
\* completed, each with Ok or with its own error.
C17_RelayWaitsForBoth ==
  \A c \in Conns :
    phase[c] \in {"ended_ok", "ended_err"} => \A d \in Dirs : pc[c][d] \in {"ok", "err"}

\* C18 as claimed: once a direction has shut its writer down and completed,
\* the session has ended.
C18_EndsOnFirstEof ==
  \A c \in Conns, d \in Dirs : pc[c][d] = "ok" => phase[c] # "relay"

\* C18 as amended: a session in which one direction has completed cleanly
\* goes on while the opposite direction is in its loop; it has ended
\* successfully only if both directions completed cleanly.
C18_WaitsForOtherDirection ==
  \A c \in Conns :
    /\ phase[c] = "ended_ok" => \A d \in Dirs : pc[c][d] = "ok"
    /\ \A d \in Dirs :
         (pc[c][d] = "ok" /\ pc[c][Other(d)] \in Active) => phase[c] = "relay"

C18_Witness ==
  \E c \in Conns :
    /\ pc[c]["c2s"] = "ok" /\ nshut[c]["c2s"] = 1
    /\ pc[c]["s2c"] = "read" /\ rpos[c]["s2c"] = 0
    /\ phase[c] = "relay"

\* C19: a task is aborted only after main's join has returned, and only
\* while it is in flight; once the join has returned every task in flight, of
\* either port, is open to cancellation, an aborted task has no copy operation
\* in its loop, and the runtime's shutdown eventually leaves no task in flight
\* and no copy operation in its loop.
C19_TasksEndWithMain ==
  /\ [][\A c \in Conns :
          (phase'[c] = "aborted" /\ phase[c] # "aborted") =>
            (main # "running" /\ main' = main /\ phase[c] \in InFlight)]_vars
  /\ [](\A c \in Conns :
          /\ (main # "running" /\ phase[c] \in InFlight) => ENABLED Teardown(c)
          /\ phase[c] = "aborted" => \A d \in Dirs : pc[c][d] \notin Active)
  /\ (main # "running") ~>
       (\A c \in Conns : phase[c] \notin InFlight /\ \A d \in Dirs : pc[c][d] \notin Active)

C19_Witness ==
  /\ main = "err"
  /\ acceptorErr["https"] = "listener_error"
  /\ \E c1, c2 \in Conns :
       /\ port[c1] = "http" /\ phase[c1] = "aborted" /\ pc[c1]["c2s"] = "cancelled"
       /\ recv[c1]["c2s"] # <<>>
       /\ port[c2] = "https" /\ phase[c2] = "aborted" /\ dials[c2] = 0

\* C20: a session whose two copy operations have finished is no longer
\* alive, and with peers and writers that eventually respond every relaying
\* session eventually ends.
C20_SessionTerminates ==
  /\ [](\A c \in Conns :
          (\A d \in Dirs : pc[c][d] \in {"ok", "err", "cancelled"}) => phase[c] # "relay")
  /\ \A c \in Conns : (phase[c] = "relay") ~> (phase[c] # "relay")

C20_Witness ==
  \E c \in Conns :
    /\ phase[c] = "ended_ok"
    /\ \A d \in Dirs : pc[c][d] = "ok" /\ nshut[c][d] = 1 /\ rpos[c][d] = inlen[c][d]

====
